---- MODULE Spec2Model ----
(***************************************************************************)
(* The auction transaction engine of auction-house-rs (backend/src/routes) *)
(* as a state machine over the key-value store.                            *)
(*                                                                         *)
(* State: the five tables (seller, buyer, item, bid, purchase), the wall   *)
(* clock, the handler invocations that are between two store round trips   *)
(* (calls), and the response of the call that returned last (last).        *)
(*                                                                         *)
(* One action per HTTP handler.  A handler that makes several store round  *)
(* trips takes one step per round trip, so that other handlers interleave  *)
(* between them; everything a handler computes locally between two round   *)
(* trips belongs to the step of the later round trip.                      *)
(*                                                                         *)
(* Store records carry the attribute names the serialisers write           *)
(* (serde rename_all = "camelCase"); a condition or update expression is   *)
(* evaluated over the attribute names it spells.  An attribute a record    *)
(* does not carry is absent: a comparison with it is false, arithmetic on  *)
(* it fails the request, and so does a key that does not spell the key     *)
(* attributes of its table.  Request plumbing the source leaves out (the   *)
(* table name of the publish/unpublish/archive requests) is taken from the *)
(* key the request spells; the store's request validation (reserved words, *)
(* expression syntax) is not modelled.                                     *)
(***************************************************************************)
EXTENDS Integers, Sequences, FiniteSets, TLC

VARIABLES sellerTable, buyerTable, itemTable, bidTable, purchaseTable,
          now, calls, last

tables == <<sellerTable, buyerTable, itemTable, bidTable, purchaseTable>>
vars == <<sellerTable, buyerTable, itemTable, bidTable, purchaseTable,
          now, calls, last>>

----------------------------------------------------------------------------
(* Bounds of the model *)

\* the clock runs 0..MaxTime
MaxTime == 2
\* seller_add_item is not taken beyond this number of items
MaxItems == 1
\* handler invocations that can be in flight at once
NumWorkers == 2
\* add-fund is not taken beyond this balance
MaxFund == 200
\* the winning amounts seller_income is computed of are 0..MaxAmount
MaxAmount == 200

Workers == 1..NumWorkers
\* Ulid::new() hands out 1..MaxItems + 1: one for each item and one more
Ulids == 1..(MaxItems + 1)

\* inputs of the requests
RegisterPayloads == {<<"seller", "s">>, <<"buyer", "a">>, <<"buyer", "b">>}
AuctionLengths == {1}
InitPrices == {100}
\* the amount a buyer adds: 150 for buyer a, 200 for buyer b
FundAmounts(email) == IF email = "a" THEN {150} ELSE {200}
BidAmounts == {120, 150, 200}
\* the name a request gives the item that gets the ULID ulid: the tests name
\* each item after a ULID of its own
ItemNames(ulid) == {<<"TestItem", ulid>>}

----------------------------------------------------------------------------
(* Values *)

\* Option::None of a u64 field / AttributeValue::Null
Null == -1
\* Option<BidRef>::None; a BidRef is <<buyerId, id>>
NoBidRef == <<>>
\* no item in a response record
NoItem == <<>>
\* the caller of a handler that takes no claim
NoClaim == <<>>
\* no Item in the body of a response
NoBody == [sellerId |-> <<>>, id |-> 0, name |-> <<>>]

\* the id is the role followed by a digest of email and role; the digest is
\* taken to be free of collisions, so the id stands for the pair
create_userid(email, user_type) == <<user_type, email>>

SellerId == create_userid("s", "seller")
BuyerA == create_userid("a", "buyer")
BuyerB == create_userid("b", "buyer")

\* the Buyer that register serialises: the struct has no fundOnHold field
NewBuyer(id) == [id |-> id, fund |-> 0]

NewSeller(id) == [id |-> id, fund |-> 0]

\* an item built with its name left empty
new_from_request_unnamed(seller_id, ulid, name, init_price, auction_length) ==
    [sellerId |-> seller_id, id |-> ulid, name |-> <<>>, initPrice |-> init_price,
     auctionLength |-> auction_length, state |-> "inactive",
     startDate |-> Null, endDate |-> Null,
     currentBid |-> NoBidRef, pastBids |-> <<>>,
     soldBid |-> NoBidRef, soldTime |-> Null, soldPrice |-> Null]

new_from_request(seller_id, ulid, name, init_price, auction_length) ==
    [sellerId |-> seller_id, id |-> ulid, name |-> name, initPrice |-> init_price,
     auctionLength |-> auction_length, state |-> "inactive",
     startDate |-> Null, endDate |-> Null,
     currentBid |-> NoBidRef, pastBids |-> <<>>,
     soldBid |-> NoBidRef, soldTime |-> Null, soldPrice |-> Null]

ItemRefOf(seller_id, ulid) == <<seller_id, ulid>>

BidRefOf(bid) == <<bid.buyerId, bid.id>>

\* the fields of Item that are not an Option: a stored record that lacks one
\* of them does not deserialise (an absent Option reads as None)
RequiredItemFields == {"sellerId", "id", "name", "initPrice", "state", "auctionLength",
                       "pastBids"}

\* whether from_item turns the stored record into an Item
from_item_ok(rec) == RequiredItemFields \subseteq DOMAIN rec

\* the Item a response carries: of its fields, key and name
from_item(rec) == [sellerId |-> rec.sellerId, id |-> rec.id, name |-> rec.name]

----------------------------------------------------------------------------
(* The store adapter *)

Exists(table, key) == key \in DOMAIN table

HasAttr(table, key, attr) == Exists(table, key) /\ attr \in DOMAIN table[key]

\* attribute = value in a condition expression: false on an absent record or attribute
AttrEq(table, key, attr, value) ==
    HasAttr(table, key, attr) /\ table[key][attr] = value

\* attribute >= value in a condition expression
AttrGe(table, key, attr, value) ==
    HasAttr(table, key, attr) /\ table[key][attr] >= value

PutItem(table, key, rec) == [k \in DOMAIN table \cup {key} |-> IF k = key THEN rec ELSE table[k]]

DeleteItem(table, key) == [k \in DOMAIN table \ {key} |-> table[k]]

\* SET of the attributes of `sets` on the record at key; creates the record
\* from the key attributes when it is absent (UpdateItem upserts)
UpdateItem(table, key, keyrec, sets) ==
    LET old == IF Exists(table, key) THEN table[key] ELSE keyrec
        new == [a \in DOMAIN old \cup DOMAIN sets |->
                   IF a \in DOMAIN sets THEN sets[a] ELSE old[a]]
    IN PutItem(table, key, new)

----------------------------------------------------------------------------
(* Principals and responses *)

\* the (id, role) pairs a verified token can carry: the registered users
Principals == DOMAIN sellerTable \cup DOMAIN buyerTable

UserTypeOf(id) == id[1]

\* a role check that lets every role pass
check_user_any_role(claim, user_type) == claim \in Principals

\* check_user: the role check every seller / buyer handler starts with
check_user(claim, user_type) == UserTypeOf(claim) = user_type

\* calls lists the invocations in flight, at most one per worker: worker w
\* runs calls[w] when w <= Len(calls), and a new request goes to the next one
Starts(w) == w = Len(calls) + 1

Running(op) == {v \in 1..Len(calls) : calls[v].op = op}

RemoveAt(seq, i) == [j \in 1..(Len(seq) - 1) |-> IF j < i THEN seq[j] ELSE seq[j + 1]]

\* the handler awaits its next store round trip
Suspend(w, call) ==
    /\ calls' = IF Starts(w) THEN Append(calls, call) ELSE [calls EXCEPT ![w] = call]
    /\ UNCHANGED last

\* the ULIDs the store and the calls in flight hold, and the next one
\* Ulid::new() returns
UsedUlids ==
    {k[2] : k \in DOMAIN itemTable} \cup {k[2] : k \in DOMAIN bidTable}
        \cup {k[2] : k \in DOMAIN purchaseTable}
        \cup {calls[w].bid.id : w \in Running("bid")}

HasFreshUlid == Ulids \ UsedUlids # {}

FreshUlid == CHOOSE u \in Ulids \ UsedUlids : \A v \in Ulids \ UsedUlids : u <= v

\* item: the item the call names; amount: the amount the request carries
\* (neither is kept of a call the role check turns away);
\* value: the number the response body carries (0 when it carries none);
\* body: the Item the response body carries (NoBody when it carries none)
Response(op, caller, item, amount, status, value) ==
    [op |-> op, caller |-> caller, item |-> item, amount |-> amount,
     status |-> status, value |-> value, body |-> NoBody]

\* the handler returns: the worker is free again and last holds the response
Return(w, op, caller, item, amount, status) ==
    /\ calls' = IF Starts(w) THEN calls ELSE RemoveAt(calls, w)
    /\ last' = Response(op, caller, item, amount, status, 0)

ReturnValue(w, op, caller, item, amount, status, value) ==
    /\ calls' = IF Starts(w) THEN calls ELSE RemoveAt(calls, w)
    /\ last' = Response(op, caller, item, amount, status, value)

\* the handler returns an Item
ReturnItem(w, op, caller, item, status, body) ==
    /\ calls' = IF Starts(w) THEN calls ELSE RemoveAt(calls, w)
    /\ last' = [Response(op, caller, item, 0, status, 0) EXCEPT !.body = body]

\* the store before any user has registered
InitRegister ==
    /\ sellerTable = <<>>
    /\ buyerTable = <<>>
    /\ itemTable = <<>>
    /\ bidTable = <<>>
    /\ purchaseTable = <<>>
    /\ now = 0
    /\ calls = <<>>
    /\ last = Response("none", <<>>, NoItem, 0, "OK", 0)

\* the store once the seller and the two buyers have registered
Init ==
    /\ sellerTable = PutItem(<<>>, SellerId, NewSeller(SellerId))
    /\ buyerTable = PutItem(PutItem(<<>>, BuyerA, NewBuyer(BuyerA)), BuyerB, NewBuyer(BuyerB))
    /\ itemTable = <<>>
    /\ bidTable = <<>>
    /\ purchaseTable = <<>>
    /\ now = 0
    /\ calls = <<>>
    /\ last = Response("none", <<>>, NoItem, 0, "OK", 0)

----------------------------------------------------------------------------
(* routes/auth.rs *)

UserTable(user_type) == IF user_type = "buyer" THEN buyerTable ELSE sellerTable

register(w) ==
    /\ w \in Running("register") \cup {Len(calls) + 1}
    /\ UNCHANGED <<itemTable, bidTable, purchaseTable, now>>
    /\ IF Starts(w)
       THEN \E payload \in RegisterPayloads :
              LET id == create_userid(payload[2], payload[1]) IN
              \* 1. check user existence
              IF Exists(UserTable(payload[1]), id)
              THEN /\ Return(w, "register", id, NoItem, 0, "BAD_REQUEST")
                   /\ UNCHANGED <<sellerTable, buyerTable>>
              ELSE /\ Suspend(w,
                                  [op |-> "register", user_type |-> payload[1], id |-> id])
                   /\ UNCHANGED <<sellerTable, buyerTable>>
       ELSE LET id == calls[w].id IN
            \* 4. write item: an unconditional put
            /\ IF calls[w].user_type = "buyer"
               THEN /\ buyerTable' = PutItem(buyerTable, id, NewBuyer(id))
                    /\ UNCHANGED sellerTable
               ELSE /\ sellerTable' = PutItem(sellerTable, id, NewSeller(id))
                    /\ UNCHANGED buyerTable
            /\ Return(w, "register", id, NoItem, 0, "OK")

----------------------------------------------------------------------------
(* routes/seller.rs *)

\* a query of the item table by the seller's id; it writes nothing
seller_get_owned_items(w) ==
    /\ Starts(w)
    /\ UNCHANGED <<tables, now>>
    /\ \E claim \in Principals :
         IF ~check_user(claim, "seller")
         THEN Return(w, "get_owned_items", claim, NoItem, 0, "FORBIDDEN")
         ELSE Return(w, "get_owned_items", claim, NoItem, 0, "OK")

seller_get_item_by_id(w) ==
    /\ Starts(w)
    /\ UNCHANGED <<tables, now>>
    /\ \E claim \in Principals :
         IF ~check_user(claim, "seller")
         THEN Return(w, "get_item_by_id", claim, NoItem, 0, "FORBIDDEN")
         ELSE \E item_id \in Ulids :
              LET key == ItemRefOf(claim, item_id) IN
              IF ~Exists(itemTable, key)
              THEN Return(w, "get_item_by_id", claim, key, 0, "NOT_FOUND")
              ELSE IF ~from_item_ok(itemTable[key])
              THEN Return(w, "get_item_by_id", claim, key, 0, "INTERNAL_SERVER_ERROR")
              ELSE ReturnItem(w, "get_item_by_id", claim, key, "OK", from_item(itemTable[key]))

seller_add_item(w) ==
    /\ Starts(w)
    /\ UNCHANGED <<sellerTable, buyerTable, bidTable, purchaseTable, now>>
    /\ \E claim \in Principals :
         IF ~check_user(claim, "seller")
         THEN /\ Return(w, "add_item", claim, NoItem, 0, "FORBIDDEN")
              /\ UNCHANGED itemTable
         ELSE \E init_price \in InitPrices, auction_length \in AuctionLengths :
              /\ HasFreshUlid
              /\ Cardinality(DOMAIN itemTable) < MaxItems
              /\ \E name \in ItemNames(FreshUlid) :
                 LET new_item == new_from_request(claim, FreshUlid, name, init_price,
                                                  auction_length)
                     iref == ItemRefOf(new_item.sellerId, new_item.id)
                 IN /\ itemTable' = PutItem(itemTable, iref, new_item)
                    /\ Return(w, "add_item", claim, iref, 0, "OK")

\* the condition of delete and update spells the attribute itemState
DeleteCondition(key) == AttrEq(itemTable, key, "itemState", "inactive")

seller_delete_item_by_id(w) ==
    /\ Starts(w)
    /\ UNCHANGED <<sellerTable, buyerTable, bidTable, purchaseTable, now>>
    /\ \E claim \in Principals :
         IF ~check_user(claim, "seller")
         THEN /\ Return(w, "delete", claim, NoItem, 0, "FORBIDDEN")
              /\ UNCHANGED itemTable
         ELSE \E item_id \in Ulids :
         LET key == ItemRefOf(claim, item_id) IN
         IF ~DeleteCondition(key)
         THEN \* ConditionalCheckFailed reaches the caller through `?`
              /\ Return(w, "delete", claim, key, 0, "INTERNAL_SERVER_ERROR")
              /\ UNCHANGED itemTable
         ELSE \* no return values were asked for: attributes() is none
              /\ itemTable' = DeleteItem(itemTable, key)
              /\ Return(w, "delete", claim, key, 0, "NOT_FOUND")

UpdateCondition(key) == AttrEq(itemTable, key, "itemState", "inactive")

\* UpdateItemRequest: Null stands for a field the request leaves out
UpdatePayloads == {[init_price |-> Null], [init_price |-> 110]}

seller_update_item_by_id(w) ==
    /\ Starts(w)
    /\ UNCHANGED <<sellerTable, buyerTable, bidTable, purchaseTable, now>>
    /\ \E claim \in Principals :
         IF ~check_user(claim, "seller")
         THEN /\ Return(w, "update", claim, NoItem, 0, "FORBIDDEN")
              /\ UNCHANGED itemTable
         ELSE \E item_id \in Ulids, payload \in UpdatePayloads :
         LET key == ItemRefOf(claim, item_id) IN
         IF payload.init_price = Null
         THEN /\ Return(w, "update", claim, key, payload.init_price, "BAD_REQUEST")
              /\ UNCHANGED itemTable
         ELSE IF ~UpdateCondition(key)
         THEN /\ Return(w, "update", claim, key, payload.init_price, "INTERNAL_SERVER_ERROR")
              /\ UNCHANGED itemTable
         ELSE /\ itemTable' = UpdateItem(itemTable, key, [sellerId |-> key[1], id |-> key[2]],
                                         [init_price |-> payload.init_price])
              /\ Return(w, "update", claim, key, payload.init_price, "OK")

\* publish with the auction ending when it starts
PublishSets_no_length(sdate, edate) ==
    [state |-> "active", startDate |-> sdate, endDate |-> sdate]

\* the three attributes publish writes
PublishSets(sdate, edate) == [state |-> "active", startDate |-> sdate, endDate |-> edate]

seller_publish_item_by_id(w) ==
    /\ w \in Running("publish") \cup {Len(calls) + 1}
    /\ UNCHANGED <<sellerTable, buyerTable, bidTable, purchaseTable, now>>
    /\ IF Starts(w)
       THEN \E claim \in Principals :
              IF ~check_user(claim, "seller")
              THEN /\ Return(w, "publish", claim, NoItem, 0, "FORBIDDEN")
                   /\ UNCHANGED itemTable
              ELSE \E item_id \in Ulids :
              LET key == ItemRefOf(claim, item_id) IN
              IF ~Exists(itemTable, key)
              THEN /\ Return(w, "publish", claim, key, 0, "NOT_FOUND")
                   /\ UNCHANGED itemTable
              ELSE IF itemTable[key].state # "inactive"
              THEN /\ Return(w, "publish", claim, key, 0, "BAD_REQUEST")
                   /\ UNCHANGED itemTable
              ELSE \* PublishSubItem: the projection state, auctionLength
                   /\ Suspend(w,
                                  [op |-> "publish", key |-> key,
                                   auction_length |-> itemTable[key].auctionLength])
                   /\ UNCHANGED itemTable
       ELSE LET key == calls[w].key
                sdate == now
                edate == sdate + calls[w].auction_length
            IN \* an update without a condition expression
               /\ itemTable' = UpdateItem(itemTable, key, [sellerId |-> key[1], id |-> key[2]],
                                          PublishSets(sdate, edate))
               /\ Return(w, "publish", key[1], key, 0, "OK")

\* the condition of unpublish without its test of the state
UnpublishCondition_no_state(key) ==
    /\ AttrEq(itemTable, key, "currentBid", NoBidRef)
    /\ HasAttr(itemTable, key, "pastBids")
    /\ Len(itemTable[key].pastBids) = 0

UnpublishCondition(key) ==
    /\ AttrEq(itemTable, key, "state", "active")
    /\ AttrEq(itemTable, key, "currentBid", NoBidRef)
    /\ HasAttr(itemTable, key, "pastBids")
    /\ Len(itemTable[key].pastBids) = 0

seller_unpublish_item_by_id(w) ==
    /\ Starts(w)
    /\ UNCHANGED <<sellerTable, buyerTable, bidTable, purchaseTable, now>>
    /\ \E claim \in Principals :
         IF ~check_user(claim, "seller")
         THEN /\ Return(w, "unpublish", claim, NoItem, 0, "FORBIDDEN")
              /\ UNCHANGED itemTable
         ELSE \E item_id \in Ulids :
         LET key == ItemRefOf(claim, item_id) IN
         IF ~UnpublishCondition(key)
         THEN /\ Return(w, "unpublish", claim, key, 0, "INTERNAL_SERVER_ERROR")
              /\ UNCHANGED itemTable
         ELSE /\ itemTable' = UpdateItem(itemTable, key, [sellerId |-> key[1], id |-> key[2]],
                                         [state |-> "inactive", startDate |-> Null,
                                          endDate |-> Null])
              /\ Return(w, "unpublish", claim, key, 0, "OK")

ArchiveCondition(key) ==
    \/ AttrEq(itemTable, key, "state", "inactive")
    \/ AttrEq(itemTable, key, "state", "failed")

\* the value the request binds to :archived is ItemState::Active
ArchiveSets == [state |-> "active"]

seller_archive_item_by_id(w) ==
    /\ Starts(w)
    /\ UNCHANGED <<sellerTable, buyerTable, bidTable, purchaseTable, now>>
    /\ \E claim \in Principals :
         IF ~check_user(claim, "seller")
         THEN /\ Return(w, "archive", claim, NoItem, 0, "FORBIDDEN")
              /\ UNCHANGED itemTable
         ELSE \E item_id \in Ulids :
         LET key == ItemRefOf(claim, item_id) IN
         IF ~ArchiveCondition(key)
         THEN /\ Return(w, "archive", claim, key, 0, "INTERNAL_SERVER_ERROR")
              /\ UNCHANGED itemTable
         ELSE /\ itemTable' = UpdateItem(itemTable, key, [sellerId |-> key[1], id |-> key[2]],
                                         ArchiveSets)
              /\ Return(w, "archive", claim, key, 0, "OK")

\* the item read of fulfill: what the handler requires of the stored item
FulfillPrecondition(item) == item.state = "completed" /\ item.currentBid # NoBidRef

\* the income rounded to the nearest integer instead of down
seller_income_nearest(amount) == (amount * 95 + 50) \div 100

\* floor(amount * 0.95) of the f64 product; the product of an amount below
\* 2^53 and the double 0.95 is floored to the same integer as amount * 95 / 100
seller_income(amount) == (amount * 95) \div 100

\* the placeholders the item update of fulfill spells, and the ones it binds
FulfillItemPlaceholders == {":bid_ref", ":time", ":price", ":archived"}
FulfillItemValues == {":bid_ref", ":time", ":price", ":state"}

\* the conditions of the fulfill transaction, and whether its updates can be evaluated
FulfillTransactOk(claim, key, bid) ==
    /\ HasAttr(sellerTable, claim, "fund")
    /\ AttrGe(buyerTable, bid.buyerId, "fundOnHold", bid.amount)
    /\ FulfillItemPlaceholders \subseteq FulfillItemValues

seller_fulfill_item_by_id(w) ==
    /\ w \in Running("fulfill") \cup {Len(calls) + 1}
    /\ UNCHANGED now
    /\ IF Starts(w)
       THEN /\ UNCHANGED tables
            /\ \E claim \in Principals :
                 IF ~check_user(claim, "seller")
                 THEN Return(w, "fulfill", claim, NoItem, 0, "FORBIDDEN")
                 ELSE \E item_id \in Ulids :
                 LET key == ItemRefOf(claim, item_id) IN
                 IF ~Exists(itemTable, key)
                 THEN Return(w, "fulfill", claim, key, 0, "NOT_FOUND")
                 ELSE IF ~FulfillPrecondition(itemTable[key])
                 THEN Return(w, "fulfill", claim, key, 0, "BAD_REQUEST")
                 ELSE /\ Suspend(w,
                                     [op |-> "fulfill", step |-> "get_bid", claim |-> claim,
                                      key |-> key,
                                      curr_bid_ref |-> itemTable[key].currentBid])
       ELSE LET claim == calls[w].claim
                key == calls[w].key
                curr_bid_ref == calls[w].curr_bid_ref
            IN
            IF calls[w].step = "get_bid"
            THEN /\ UNCHANGED tables
                 /\ IF ~Exists(bidTable, curr_bid_ref)
                    THEN Return(w, "fulfill", claim, key, 0, "NOT_FOUND")
                    ELSE /\ Suspend(w,
                                        [op |-> "fulfill", step |-> "transact", claim |-> claim,
                                         key |-> key, curr_bid_ref |-> curr_bid_ref,
                                         bid |-> bidTable[curr_bid_ref]])
            ELSE LET bid == calls[w].bid IN
                 IF ~(HasFreshUlid /\ FulfillTransactOk(claim, key, bid))
                 THEN /\ UNCHANGED tables
                      /\ Return(w, "fulfill", claim, key, 0, "INTERNAL_SERVER_ERROR")
                 ELSE LET purchase == [buyerId |-> bid.buyerId, id |-> FreshUlid,
                                       createAt |-> now, item |-> key,
                                       price |-> bid.amount, soldTime |-> bid.createAt]
                      IN
                      /\ sellerTable' = UpdateItem(sellerTable, claim, [id |-> claim],
                             [fund |-> sellerTable[claim].fund + seller_income(bid.amount)])
                      /\ buyerTable' = UpdateItem(buyerTable, bid.buyerId, [id |-> bid.buyerId],
                             [fundOnHold |-> buyerTable[bid.buyerId].fundOnHold - bid.amount])
                      /\ purchaseTable' = PutItem(purchaseTable,
                                                  <<purchase.buyerId, purchase.id>>, purchase)
                      /\ itemTable' = UpdateItem(itemTable, key,
                             [sellerId |-> key[1], id |-> key[2]],
                             [soldBid |-> curr_bid_ref, soldTime |-> bid.createAt,
                              soldPrice |-> bid.amount, state |-> "archived"])
                      /\ bidTable' = UpdateItem(bidTable, curr_bid_ref,
                             [buyerId |-> curr_bid_ref[1], id |-> curr_bid_ref[2]],
                             [isActive |-> FALSE])
                      /\ Return(w, "fulfill", claim, key, 0, "OK")

----------------------------------------------------------------------------
(* routes/buyer.rs *)

\* add-fund with the sign of the amount turned
AddFundSets_debit(buyer, amount) == [fund |-> buyer.fund - amount]

\* add-fund that also opens a hold of the amount
AddFundSets_and_hold(buyer, amount) == [fund |-> buyer.fund + amount, fundOnHold |-> amount]

\* SET fund = fund + :amount
AddFundSets(buyer, amount) == [fund |-> buyer.fund + amount]

buyer_add_fund(w) ==
    /\ Starts(w)
    /\ UNCHANGED <<sellerTable, itemTable, bidTable, purchaseTable, now>>
    /\ \E claim \in Principals :
         IF ~check_user(claim, "buyer")
         THEN /\ Return(w, "add_fund", claim, NoItem, 0, "FORBIDDEN")
              /\ UNCHANGED buyerTable
         ELSE \E amount \in FundAmounts(claim[2]) :
              IF ~HasAttr(buyerTable, claim, "fund")
         THEN /\ Return(w, "add_fund", claim, NoItem, amount, "INTERNAL_SERVER_ERROR")
              /\ UNCHANGED buyerTable
         ELSE /\ buyerTable[claim].fund + amount <= MaxFund
              /\ buyerTable' = UpdateItem(buyerTable, claim, [id |-> claim],
                                          AddFundSets(buyerTable[claim], amount))
              /\ ReturnValue(w, "add_fund", claim, NoItem, amount, "OK",
                             buyerTable'[claim].fund)

\* the table the projection read of place-bid names (BID_TABLE), and the
\* key attributes it spells: those of the item
PlaceBidProjectionTable == bidTable
PlaceBidProjectionKeyNames == <<"sellerId", "id">>

\* PlaceBidProjection: current_bid of the record read, None when it has none
PlaceBidProjection(key) ==
    IF HasAttr(PlaceBidProjectionTable, key, "currentBid")
    THEN PlaceBidProjectionTable[key].currentBid
    ELSE NoBidRef

\* the key attributes of the bid table (a Bid is identified by buyerId, id),
\* and the ones the update of the superseded bid spells
BidKeySchema == <<"buyerId", "id">>
PriorBidKeyNames == <<"buyer_id", "id">>

\* the error return of place-bid, had the Bid been put on its own before the
\* projection read
place_bid_read_error_after_put(w, claim, key, amount, status) ==
    /\ HasFreshUlid
    /\ Return(w, "bid", claim, key, amount, status)
    /\ bidTable' = PutItem(bidTable, <<claim, FreshUlid>>,
                           [buyerId |-> claim, id |-> FreshUlid, createAt |-> now,
                            item |-> key, amount |-> amount, isActive |-> TRUE])
    /\ UNCHANGED <<buyerTable, itemTable>>

\* the error return of place-bid, had the buyer been debited on its own
\* before the projection read
place_bid_read_error_after_hold(w, claim, key, amount, status) ==
    /\ Return(w, "bid", claim, key, amount, status)
    /\ buyerTable' = UpdateItem(buyerTable, claim, [id |-> claim],
                                [fund |-> buyerTable[claim].fund - amount])
    /\ UNCHANGED <<itemTable, bidTable>>

\* the `?` on the projection read: the handler returns with the error and
\* has written nothing
place_bid_read_error(w, claim, key, amount, status) ==
    /\ Return(w, "bid", claim, key, amount, status)
    /\ UNCHANGED <<buyerTable, itemTable, bidTable>>

\* the conditions of the place-bid transaction, and whether its updates can be evaluated
PlaceBidTransactOk(bid, project) ==
    /\ AttrGe(buyerTable, bid.buyerId, "fund", bid.amount)
    /\ HasAttr(buyerTable, bid.buyerId, "fundOnHold")
    /\ AttrEq(itemTable, bid.item, "state", "active")
    /\ HasAttr(itemTable, bid.item, "pastBids")
    /\ project # NoBidRef => PriorBidKeyNames = BidKeySchema

buyer_place_bid(w) ==
    /\ w \in Running("bid") \cup {Len(calls) + 1}
    /\ UNCHANGED <<sellerTable, purchaseTable, now>>
    /\ IF Starts(w)
       THEN \E claim \in Principals :
                 IF ~check_user(claim, "buyer")
                 THEN /\ Return(w, "bid", claim, NoItem, 0, "FORBIDDEN")
                      /\ UNCHANGED <<buyerTable, itemTable, bidTable>>
                 ELSE \E item_id \in Ulids, amount \in BidAmounts :
                 LET key == ItemRefOf(SellerId, item_id) IN
                 IF PlaceBidProjectionKeyNames # BidKeySchema
                 THEN place_bid_read_error(w, claim, key, amount, "INTERNAL_SERVER_ERROR")
                 ELSE IF ~Exists(PlaceBidProjectionTable, key)
                 THEN place_bid_read_error(w, claim, key, amount, "NOT_FOUND")
                 ELSE /\ HasFreshUlid
                      /\ UNCHANGED <<buyerTable, itemTable, bidTable>>
                      /\ Suspend(w,
                                     [op |-> "bid",
                                      bid |-> [buyerId |-> claim, id |-> FreshUlid,
                                               createAt |-> now, item |-> key,
                                               amount |-> amount, isActive |-> TRUE],
                                      project |-> PlaceBidProjection(key)])
       ELSE LET bid == calls[w].bid
                bid_ref == BidRefOf(bid)
                project == calls[w].project
            IN
            IF ~PlaceBidTransactOk(bid, project)
            THEN /\ UNCHANGED <<buyerTable, itemTable, bidTable>>
                 /\ Return(w, "bid", bid.buyerId, bid.item, bid.amount, "INTERNAL_SERVER_ERROR")
            ELSE /\ bidTable' =
                      LET put == PutItem(bidTable, bid_ref, bid) IN
                      IF project = NoBidRef THEN put
                      ELSE UpdateItem(put, project,
                                      [buyerId |-> project[1], id |-> project[2]],
                                      [isActive |-> FALSE])
                 /\ buyerTable' = UpdateItem(buyerTable, bid.buyerId, [id |-> bid.buyerId],
                        [fund |-> buyerTable[bid.buyerId].fund - bid.amount,
                         fundOnHold |-> buyerTable[bid.buyerId].fundOnHold + bid.amount])
                 /\ itemTable' = UpdateItem(itemTable, bid.item,
                        [sellerId |-> bid.item[1], id |-> bid.item[2]],
                        [currentBid |-> bid_ref,
                         pastBids |-> Append(itemTable[bid.item].pastBids, bid_ref)])
                 /\ ReturnValue(w, "bid", bid.buyerId, bid.item, bid.amount, "OK", bid.id)

\* the key attributes of the purchase table (a Purchase is identified by
\* buyerId, id), and the attribute the key conditions of the two queries spell
PurchaseKeySchema == <<"buyerId", "id">>
QueryKeyName == "buyer_id"

\* a query of the bid table by the buyer's id; it writes nothing
buyer_active_bids(w) ==
    /\ Starts(w)
    /\ UNCHANGED <<tables, now>>
    /\ \E claim \in Principals :
         IF ~check_user(claim, "buyer")
         THEN Return(w, "active_bids", claim, NoItem, 0, "FORBIDDEN")
         ELSE IF QueryKeyName # BidKeySchema[1]
         THEN Return(w, "active_bids", claim, NoItem, 0, "INTERNAL_SERVER_ERROR")
         ELSE Return(w, "active_bids", claim, NoItem, 0, "OK")

\* a query of the purchase table by the buyer's id; it writes nothing
buyer_purchases(w) ==
    /\ Starts(w)
    /\ UNCHANGED <<tables, now>>
    /\ \E claim \in Principals :
         IF ~check_user(claim, "buyer")
         THEN Return(w, "purchases", claim, NoItem, 0, "FORBIDDEN")
         ELSE IF QueryKeyName # PurchaseKeySchema[1]
         THEN Return(w, "purchases", claim, NoItem, 0, "INTERNAL_SERVER_ERROR")
         ELSE Return(w, "purchases", claim, NoItem, 0, "OK")

----------------------------------------------------------------------------
(* routes/item.rs *)

\* the read of an item by the seller id and the item id of the path; the
\* handler takes no claim, checks no role and writes nothing
get_item(w) ==
    /\ Starts(w)
    /\ UNCHANGED <<tables, now>>
    /\ \E seller_id \in DOMAIN sellerTable, item_id \in Ulids :
         LET key == ItemRefOf(seller_id, item_id) IN
         IF ~Exists(itemTable, key)
         THEN Return(w, "get_item", NoClaim, key, 0, "NOT_FOUND")
         ELSE IF ~from_item_ok(itemTable[key])
         THEN Return(w, "get_item", NoClaim, key, 0, "INTERNAL_SERVER_ERROR")
         ELSE ReturnItem(w, "get_item", NoClaim, key, "OK", from_item(itemTable[key]))

\* is_expired with the end date counted as elapsed
is_expired_at_end(current_time, edate) == IF current_time >= edate THEN 1 ELSE 0

\* is_expired of CheckItemExiprationResponse, 1 for true and 0 for false
is_expired(current_time, edate) == IF current_time > edate THEN 1 ELSE 0

\* the handler takes no claim, checks no role and writes nothing
check_item_expiration(w) ==
    /\ Starts(w)
    /\ UNCHANGED <<tables, now>>
    /\ \E seller_id \in DOMAIN sellerTable, item_id \in Ulids :
         LET key == ItemRefOf(seller_id, item_id) IN
         IF ~Exists(itemTable, key)
         THEN Return(w, "check_expired", NoClaim, key, 0, "NOT_FOUND")
         ELSE IF ~from_item_ok(itemTable[key])
         THEN Return(w, "check_expired", NoClaim, key, 0, "INTERNAL_SERVER_ERROR")
         ELSE LET result == itemTable[key]
                  current_time == now
              IN IF "endDate" \in DOMAIN result /\ result.endDate # Null
                 THEN ReturnValue(w, "check_expired", NoClaim, key, 0, "OK",
                                  is_expired(current_time, result.endDate))
                 ELSE Return(w, "check_expired", NoClaim, key, 0, "BAD_REQUEST")

\* a scan of the item table; it writes nothing
get_recently_sold(w) ==
    /\ Starts(w)
    /\ UNCHANGED <<tables, now>>
    /\ \E claim \in Principals :
         IF ~check_user(claim, "buyer")
         THEN Return(w, "recently_sold", claim, NoItem, 0, "FORBIDDEN")
         ELSE Return(w, "recently_sold", claim, NoItem, 0, "OK")

----------------------------------------------------------------------------
(* The clock, and the specification *)

Tick ==
    /\ now < MaxTime
    /\ now' = now + 1
    /\ UNCHANGED <<tables, calls, last>>

Next ==
    \/ \E w \in Workers : register(w)
    \/ \E w \in Workers : seller_add_item(w)
    \/ \E w \in Workers : seller_delete_item_by_id(w)
    \/ \E w \in Workers : seller_update_item_by_id(w)
    \/ \E w \in Workers : seller_publish_item_by_id(w)
    \/ \E w \in Workers : seller_unpublish_item_by_id(w)
    \/ \E w \in Workers : seller_archive_item_by_id(w)
    \/ \E w \in Workers : seller_fulfill_item_by_id(w)
    \/ \E w \in Workers : buyer_add_fund(w)
    \/ \E w \in Workers : buyer_place_bid(w)
    \/ Tick

\* the handlers that write the store, and the clock
Spec == Init /\ [][Next]_vars

\* the handlers that only read the store
NextRead ==
    \/ \E w \in Workers : seller_get_owned_items(w)
    \/ \E w \in Workers : seller_get_item_by_id(w)
    \/ \E w \in Workers : buyer_active_bids(w)
    \/ \E w \in Workers : buyer_purchases(w)
    \/ \E w \in Workers : get_recently_sold(w)
    \/ \E w \in Workers : get_item(w)

NextAll == Next \/ NextRead

\* all the handlers
SpecAll == Init /\ [][NextAll]_vars

\* the seller's handlers that write items, the clock, and the expiration query
NextExpiration ==
    \/ \E w \in Workers : seller_add_item(w)
    \/ \E w \in Workers : seller_delete_item_by_id(w)
    \/ \E w \in Workers : seller_update_item_by_id(w)
    \/ \E w \in Workers : seller_publish_item_by_id(w)
    \/ \E w \in Workers : seller_unpublish_item_by_id(w)
    \/ \E w \in Workers : seller_archive_item_by_id(w)
    \/ \E w \in Workers : check_item_expiration(w)
    \/ Tick

SpecExpiration == Init /\ [][NextExpiration]_vars

\* registration from the empty store, with add-fund
NextRegister ==
    \/ \E w \in Workers : register(w)
    \/ \E w \in Workers : buyer_add_fund(w)

SpecRegister == InitRegister /\ [][NextRegister]_vars

\* the income computation of fulfill on its own: the seller's income of a
\* winning amount, handed out in last
compute_seller_income ==
    /\ \E amount \in 0..MaxAmount :
          last' = Response("income", SellerId, NoItem, amount, "OK", seller_income(amount))
    /\ UNCHANGED <<tables, now, calls>>

NextIncome == compute_seller_income

SpecIncome == Init /\ [][NextIncome]_vars

\* a place-bid, a fulfill returns OK in this step
place_bid_commits ==
    \E w \in Workers :
        buyer_place_bid(w) /\ Len(calls') < Len(calls) /\ last'.status = "OK"

fulfill_commits ==
    \E w \in Workers :
        seller_fulfill_item_by_id(w) /\ Len(calls') < Len(calls) /\ last'.status = "OK"

\* the server keeps serving: a handler in flight takes its next step and
\* requests keep arriving, and a place-bid or a fulfill that can commit again
\* and again does commit
SpecFair ==
    /\ Spec
    /\ WF_vars(Next)
    /\ SF_vars(place_bid_commits)
    /\ SF_vars(fulfill_commits)

----------------------------------------------------------------------------
(* Properties *)

\* a handler returns in this step, with the response last'
Returned == last' # last \/ Len(calls') < Len(calls)

\* the hold of a buyer record; a record without the attribute holds nothing
HoldOf(rec) == IF "fundOnHold" \in DOMAIN rec THEN rec.fundOnHold ELSE 0

Balance(rec) == rec.fund + HoldOf(rec)

RECURSIVE SumAmounts(_, _)
SumAmounts(table, keys) ==
    IF keys = {} THEN 0
    ELSE LET k == CHOOSE x \in keys : TRUE
         IN table[k].amount + SumAmounts(table, keys \ {k})

ActiveBidsOf(b) == {k \in DOMAIN bidTable : k[1] = b /\ bidTable[k].isActive}

C3_Forward ==
    {<<"inactive", "active">>, <<"inactive", "completed">>, <<"inactive", "archived">>,
     <<"active", "completed">>, <<"active", "archived">>, <<"completed", "archived">>,
     <<"inactive", "failed">>, <<"failed", "archived">>}

C3_StateMachineClosure ==
    [][\A k \in DOMAIN itemTable \cap DOMAIN itemTable' :
         itemTable'[k].state # itemTable[k].state =>
           /\ <<itemTable[k].state, itemTable'[k].state>> \in C3_Forward
           /\ last'.op = "archive" => itemTable'[k].state = "archived"
      ]_vars

C7_Alone == Len(calls') = 0 /\ \A v \in 1..Len(calls) : calls[v].op = "bid"

\* C7: the scenario of the spec, step by step, with no other call in flight.
\* A (fund 150) bids 120 on the published item of price 100 that has no bid:
\* A has fund 30 and fundOnHold 120 and currentBid is A's bid.  B (fund 200)
\* bids 150 on it: A's bid is inactive, currentBid is B's bid, pastBids is
\* [A, B], B has fund 50 and fundOnHold 150, A still has 30 and 120.  The
\* seller fulfills after the end date: the seller's fund grows by 142, B's
\* fundOnHold is 0, one Purchase of price 150 exists, the item is Archived.
C7_Scenario ==
    [][/\ (/\ Returned /\ last'.op = "bid" /\ C7_Alone
           /\ last'.caller = BuyerA /\ last'.amount = 120
           /\ buyerTable[BuyerA].fund = 150 /\ HoldOf(buyerTable[BuyerA]) = 0
           /\ AttrEq(itemTable, last'.item, "state", "active")
           /\ itemTable[last'.item].initPrice = 100
           /\ itemTable[last'.item].currentBid = NoBidRef)
          => /\ last'.status = "OK"
             /\ buyerTable'[BuyerA].fund = 30
             /\ AttrEq(buyerTable', BuyerA, "fundOnHold", 120)
             /\ itemTable'[last'.item].currentBid = <<BuyerA, last'.value>>
             /\ AttrEq(bidTable', <<BuyerA, last'.value>>, "amount", 120)
       /\ (/\ Returned /\ last'.op = "bid" /\ C7_Alone
           /\ last'.caller = BuyerB /\ last'.amount = 150
           /\ buyerTable[BuyerB].fund = 200 /\ HoldOf(buyerTable[BuyerB]) = 0
           /\ buyerTable[BuyerA].fund = 30 /\ HoldOf(buyerTable[BuyerA]) = 120
           /\ AttrEq(itemTable, last'.item, "state", "active")
           /\ itemTable[last'.item].currentBid \in ActiveBidsOf(BuyerA)
           /\ Len(itemTable[last'.item].pastBids) = 1)
          => /\ last'.status = "OK"
             /\ ~bidTable'[itemTable[last'.item].currentBid].isActive
             /\ itemTable'[last'.item].currentBid = <<BuyerB, last'.value>>
             /\ itemTable'[last'.item].pastBids =
                    <<itemTable[last'.item].currentBid, <<BuyerB, last'.value>>>>
             /\ buyerTable'[BuyerB].fund = 50
             /\ AttrEq(buyerTable', BuyerB, "fundOnHold", 150)
             /\ buyerTable'[BuyerA] = buyerTable[BuyerA]
       /\ (/\ Returned /\ last'.op = "fulfill" /\ Len(calls') = 0
           /\ \A v \in 1..Len(calls) : calls[v].op = "fulfill"
           /\ Exists(itemTable, last'.item)
           /\ itemTable[last'.item].currentBid \in ActiveBidsOf(BuyerB)
           /\ bidTable[itemTable[last'.item].currentBid].amount = 150
           /\ HoldOf(buyerTable[BuyerB]) = 150
           /\ itemTable[last'.item].endDate # Null
           /\ now > itemTable[last'.item].endDate)
          => /\ last'.status = "OK"
             /\ sellerTable'[last'.caller].fund = sellerTable[last'.caller].fund + 142
             /\ AttrEq(buyerTable', BuyerB, "fundOnHold", 0)
             /\ Cardinality(DOMAIN purchaseTable') = 1
             /\ \A p \in DOMAIN purchaseTable' : purchaseTable'[p].price = 150
             /\ itemTable'[last'.item].state = "archived"
      ]_vars

C10_HoldBacksActiveBids ==
    \A b \in DOMAIN buyerTable :
        AttrEq(buyerTable, b, "fundOnHold", SumAmounts(bidTable, ActiveBidsOf(b)))

C13_Precondition(op, k) ==
    CASE op = "add_item" -> ~Exists(itemTable, k)
      [] op \in {"publish", "update", "delete"} -> AttrEq(itemTable, k, "state", "inactive")
      [] op = "unpublish" ->
            /\ AttrEq(itemTable, k, "state", "active")
            /\ itemTable[k].currentBid = NoBidRef
            /\ itemTable[k].pastBids = <<>>
      [] op = "archive" ->
            AttrEq(itemTable, k, "state", "inactive") \/ AttrEq(itemTable, k, "state", "failed")
      [] op = "bid" -> AttrEq(itemTable, k, "state", "active")
      [] op = "fulfill" ->
            /\ Exists(itemTable, k)
            /\ itemTable[k].state \in {"active", "completed"}
            /\ itemTable[k].currentBid # NoBidRef
      [] OTHER -> FALSE

\* C13: every step that creates, changes or removes an item record is the
\* return of an operation whose state precondition holds on the item as it is
\* stored at that step; in particular a publish whose item is no longer
\* InActive when it writes changes nothing.
C13_ConditionalWrites ==
    [][\A k \in DOMAIN itemTable \cup DOMAIN itemTable' :
         (\/ ~Exists(itemTable, k) \/ ~Exists(itemTable', k)
          \/ itemTable'[k] # itemTable[k])
           => C13_Precondition(last'.op, k)
      ]_vars

C15_Archive ==
    [][(Returned /\ last'.op = "archive" /\ last'.item # NoItem) =>
         LET k == last'.item IN
         IF Exists(itemTable, k) /\ itemTable[k].state \in {"inactive", "failed"}
         THEN /\ last'.status = "OK"
              /\ itemTable' = [itemTable EXCEPT ![k] = [@ EXCEPT !.state = "archived"]]
              /\ UNCHANGED <<sellerTable, buyerTable, bidTable, purchaseTable>>
         ELSE /\ last'.status # "OK"
              /\ tables' = tables
      ]_vars

\* the item of the fulfill that returns in this step is stored with a
\* current bid and an end date that has passed
C16_Ended(k) ==
    /\ Exists(itemTable, k)
    /\ itemTable[k].currentBid # NoBidRef
    /\ itemTable[k].endDate # Null
    /\ now > itemTable[k].endDate

\* C16: a fulfill on a published item with a current bid whose end date has
\* passed is not answered with BadRequest, and it returns OK with a Purchase
\* of the item recorded when the winner's fundOnHold covers the amount; a
\* fulfill on a stored item without a current bid or whose auction has not
\* ended is answered with BadRequest and changes nothing; and, with the
\* handlers called again and again, a state with a Purchase is reached.
C16_FulfillWhenEnded ==
    /\ [][(Returned /\ last'.op = "fulfill" /\ C16_Ended(last'.item)) =>
            LET bid == bidTable[itemTable[last'.item].currentBid] IN
            /\ last'.status # "BAD_REQUEST"
            /\ HoldOf(buyerTable[bid.buyerId]) >= bid.amount =>
                 /\ last'.status = "OK"
                 /\ \E p \in DOMAIN purchaseTable' \ DOMAIN purchaseTable :
                        purchaseTable'[p].item = last'.item
         ]_vars
    /\ [][(/\ Returned /\ last'.op = "fulfill"
           /\ Exists(itemTable, last'.item) /\ ~C16_Ended(last'.item))
            => (last'.status = "BAD_REQUEST" /\ tables' = tables)
         ]_vars
    /\ <>(purchaseTable # <<>>)

RECURSIVE C17_SumIncome(_)
C17_SumIncome(keys) ==
    IF keys = {} THEN 0
    ELSE LET p == CHOOSE x \in keys : TRUE
         IN (purchaseTable[p].price * 95) \div 100 + C17_SumIncome(keys \ {p})

C18_ConditionFails ==
    \/ last'.op = "unpublish" /\ last'.item # NoItem /\ ~UnpublishCondition(last'.item)
    \/ last'.op = "archive" /\ last'.item # NoItem /\ ~ArchiveCondition(last'.item)
    \/ last'.op = "delete" /\ last'.item # NoItem /\ ~DeleteCondition(last'.item)
    \/ /\ last'.op = "update" /\ last'.item # NoItem /\ last'.status # "BAD_REQUEST"
       /\ ~UpdateCondition(last'.item)
    \/ /\ last'.op = "bid" /\ Len(calls') < Len(calls)
       /\ \/ ~AttrGe(buyerTable, last'.caller, "fund", last'.amount)
          \/ ~AttrEq(itemTable, last'.item, "state", "active")
    \/ /\ last'.op = "fulfill" /\ Len(calls') < Len(calls)
       /\ \E v \in 1..Len(calls) :
             /\ calls[v].op = "fulfill" /\ calls[v].step = "transact"
             /\ calls[v].key = last'.item
             /\ ~AttrGe(buyerTable, calls[v].bid.buyerId, "fundOnHold", calls[v].bid.amount)

\* C18: an operation whose store condition fails returns an error of its own
\* class, never OK and never the internal server error that a failure of the
\* store itself produces.
C18_ConditionFailureClass ==
    [][(Returned /\ C18_ConditionFails)
         => last'.status \notin {"OK", "INTERNAL_SERVER_ERROR"}
      ]_vars

\* the role an operation is reserved to
C19_RoleOf(op) ==
    IF op \in {"add_item", "get_owned_items", "get_item_by_id", "update", "delete",
               "publish", "unpublish", "fulfill", "archive"}
    THEN "seller"
    ELSE IF op \in {"add_fund", "bid", "active_bids", "purchases", "recently_sold"}
    THEN "buyer"
    ELSE "any"

\* C19: a seller operation called by a principal that is not a seller, and a
\* buyer operation called by one that is not a buyer, returns Forbidden at its
\* first step, before any store access, and the tables are as they were.
C19_RoleCheckFirst ==
    [][(/\ Returned /\ C19_RoleOf(last'.op) # "any"
        /\ UserTypeOf(last'.caller) # C19_RoleOf(last'.op))
         => /\ last'.status = "FORBIDDEN"
            /\ Len(calls') = Len(calls)
            /\ tables' = tables
      ]_vars

\* a buyer with fund has called publish while the seller's item was waiting
\* to be published, and was turned away
C19_Witness ==
    /\ last.op = "publish" /\ last.status = "FORBIDDEN"
    /\ UserTypeOf(last.caller) = "buyer"
    /\ buyerTable[last.caller].fund > 0
    /\ \E k \in DOMAIN itemTable : itemTable[k].state = "inactive"

\* C20: delete removes the item exactly when it is stored with state inactive
\* at the time of the delete, and then reports success with nothing else
\* changed; on an item in any other state, or absent, it fails with every
\* table unchanged, and the failure is NOT_FOUND exactly when the item is absent.
C20_Delete ==
    [][(Returned /\ last'.op = "delete" /\ last'.item # NoItem)
         => IF AttrEq(itemTable, last'.item, "state", "inactive")
            THEN /\ last'.status = "OK"
                 /\ itemTable' = DeleteItem(itemTable, last'.item)
                 /\ UNCHANGED <<sellerTable, buyerTable, bidTable, purchaseTable>>
            ELSE /\ last'.status # "OK"
                 /\ tables' = tables
                 /\ (last'.status = "NOT_FOUND") <=> ~Exists(itemTable, last'.item)
      ]_vars

\* C21: an update that supplies a field (here the initial price, carried in
\* the response's amount) commits when the item is stored with state inactive
\* at the time of the write, and then changes that field of the stored item
\* and nothing else; on an item in any other state it fails and changes
\* nothing; an update that supplies no field returns BAD_REQUEST with every
\* table unchanged.
C21_Update ==
    [][(Returned /\ last'.op = "update" /\ last'.item # NoItem)
         => IF last'.amount = Null
            THEN last'.status = "BAD_REQUEST" /\ tables' = tables
            ELSE IF AttrEq(itemTable, last'.item, "state", "inactive")
            THEN /\ last'.status = "OK"
                 /\ itemTable' = [itemTable EXCEPT ![last'.item].initPrice = last'.amount]
                 /\ UNCHANGED <<sellerTable, buyerTable, bidTable, purchaseTable>>
            ELSE last'.status # "OK" /\ tables' = tables
      ]_vars

\* C29: the reference add_item returns carries the caller's id as sellerId
\* and the item is stored under it with the name of the request; every read
\* of a stored item by (sellerId, id), through get_item or through the
\* seller's get_item_by_id, returns OK with that name, that id and that
\* sellerId; and an item leaves the store in a step of delete only.
C29_CreateThenRead ==
    [][/\ (Returned /\ last'.op = "add_item" /\ last'.status = "OK")
            => /\ last'.item[1] = last'.caller
               /\ Exists(itemTable', last'.item)
               /\ itemTable'[last'.item].name \in ItemNames(last'.item[2])
       /\ (Returned /\ last'.op \in {"get_item", "get_item_by_id"}
                    /\ Exists(itemTable, last'.item))
            => /\ last'.status = "OK"
               /\ last'.body.name \in ItemNames(last'.item[2])
               /\ last'.body.id = last'.item[2]
               /\ last'.body.sellerId = last'.item[1]
       /\ \A k \in DOMAIN itemTable : k \notin DOMAIN itemTable' => last'.op = "delete"
      ]_vars

\* an item that was published after it was created has been read by seller
\* id and item id and came back under its name
C29_Witness ==
    /\ last.op = "get_item" /\ last.status = "OK"
    /\ itemTable[last.item].state = "active"
    /\ last.body.name \in ItemNames(last.item[2])
    /\ last.body.id = last.item[2]

\* C32: a place-bid that returns with no other call in flight, by a buyer
\* whose fund covers the amount, on a stored item of state active, returns OK
\* with the id of a Bid that was not stored before: the Bid is stored under
\* (caller, id) with the amount and isActive true, the item's currentBid is
\* that reference, and the buyer's fund is down and fundOnHold up by the amount.
C32_PlaceBidCommits ==
    [][(/\ Returned /\ last'.op = "bid" /\ last'.item # NoItem
        /\ Len(calls') = 0 /\ \A v \in 1..Len(calls) : calls[v].op = "bid"
        /\ AttrGe(buyerTable, last'.caller, "fund", last'.amount)
        /\ AttrEq(itemTable, last'.item, "state", "active"))
         => LET ref == <<last'.caller, last'.value>> IN
            /\ last'.status = "OK"
            /\ ~Exists(bidTable, ref) /\ Exists(bidTable', ref)
            /\ bidTable'[ref].amount = last'.amount /\ bidTable'[ref].isActive
            /\ bidTable'[ref].item = last'.item
            /\ itemTable'[last'.item].currentBid = ref
            /\ buyerTable'[last'.caller].fund = buyerTable[last'.caller].fund - last'.amount
            /\ HoldOf(buyerTable'[last'.caller])
                   = HoldOf(buyerTable[last'.caller]) + last'.amount
      ]_vars

C34_CheckExpiration ==
    [][(Returned /\ last'.op = "check_expired")
         => /\ tables' = tables
            /\ IF ~Exists(itemTable, last'.item)
               THEN last'.status = "NOT_FOUND"
               ELSE IF itemTable[last'.item].endDate = Null
               THEN last'.status = "BAD_REQUEST"
               ELSE /\ last'.status = "OK"
                    /\ (last'.value = 1) <=> (now > itemTable[last'.item].endDate)
                    /\ (last'.value = 0) <=> (now <= itemTable[last'.item].endDate)
      ]_vars

\* the query has answered false at the very end date of a published item
C34_WitnessAtEnd ==
    /\ last.op = "check_expired" /\ last.status = "OK" /\ last.value = 0
    /\ Exists(itemTable, last.item) /\ itemTable[last.item].endDate = now
    /\ itemTable[last.item].state = "active"

\* C35: in every state, an item of state active has a start date and an end
\* date, with endDate = startDate + auctionLength, and an item of state
\* inactive has neither.
C35_Dates ==
    \A k \in DOMAIN itemTable :
        LET item == itemTable[k] IN
        /\ item.state = "active"
              => /\ item.startDate # Null /\ item.endDate # Null
                 /\ item.endDate = item.startDate + item.auctionLength
        /\ item.state = "inactive"
              => item.startDate = Null /\ item.endDate = Null

\* C36: a register that returns while the user id is stored returns
\* BAD_REQUEST, and no return of a register changes the record of a user that
\* is stored already; so no register sets a buyer's fund back to 0.
C36_RegisterNeverOverwrites ==
    [][(Returned /\ last'.op = "register")
         => /\ Exists(UserTable(UserTypeOf(last'.caller)), last'.caller)
                  => last'.status = "BAD_REQUEST"
            /\ \A b \in DOMAIN buyerTable : buyerTable'[b] = buyerTable[b]
            /\ \A b \in DOMAIN sellerTable : sellerTable'[b] = sellerTable[b]
      ]_vars

RECURSIVE C39_SumPrices(_, _)
C39_SumPrices(table, keys) ==
    IF keys = {} THEN 0
    ELSE LET k == CHOOSE x \in keys : TRUE
         IN table[k].price + C39_SumPrices(table, keys \ {k})

\* C39: every buyer record carries fundOnHold, and it is the sum of the
\* amounts of all the buyer's Bids, active or not, less the sum of the prices
\* of the buyer's Purchases.
C39_HoldLedger ==
    \A b \in DOMAIN buyerTable :
        AttrEq(buyerTable, b, "fundOnHold",
               SumAmounts(bidTable, {k \in DOMAIN bidTable : k[1] = b})
                 - C39_SumPrices(purchaseTable, {k \in DOMAIN purchaseTable : k[1] = b}))

====
